---- MODULE Spec2Model ----
(***************************************************************************)
(* Update delivery of the Telegram bot client (bot.go): the polling        *)
(* goroutine started by BotAPI.GetUpdatesChan, BotAPI.StopReceivingUpdates,*)
(* and the webhook handler registered by BotAPI.ListenForWebhook.          *)
(*                                                                         *)
(* An Update is represented by its UpdateID, the only field the polling    *)
(* loop reads.  UpdateIDs are drawn from 0..MaxID; Go's int is 64 bits     *)
(* wide, so UpdateID + 1 does not wrap for any identifier in that range.   *)
(***************************************************************************)
EXTENDS Integers, Sequences, FiniteSets, TLC

\* ---- bounds -------------------------------------------------------------
MaxID == 2            \* UpdateIDs returned by the upstream are 0..MaxID
MaxFetched == 4       \* updates the upstream returns in one run, over all batches
MaxFetchedFair == 2   \* the same, in the runs checked under fairness
MaxFails == 2         \* consecutive GetUpdates calls that return an error
MaxInitOffset == 1    \* config.Offset passed to GetUpdatesChan is 0..MaxInitOffset
MaxBuffer == 2        \* bot.Buffer at the time a channel is made is 1..MaxBuffer

MaxHandlers == 3      \* webhook requests the HTTP server handles at the same time
MaxRequests == 3      \* webhook requests delivered in one run

MaxSessions == 2      \* GetUpdatesChan calls on the one bot
MaxFetchedMulti == 1  \* updates the upstream returns to each of several sessions

IDs == 0 .. MaxID

\* All sequences over S of length at most n.
SeqsUpTo(S, n) == UNION { [1 .. k -> S] : k \in 0 .. n }

\* The results GetUpdates can hand back on success: any batch of at most n
\* updates, in any order.
Batches(n) == SeqsUpTo(IDs, n)

VARIABLES
    shutdown,     \* bot.shutdownChannel has been closed
    pc,           \* position of the polling goroutine
    offset,       \* config.Offset inside the goroutine
    initOffset,   \* config.Offset as passed to GetUpdatesChan
    batch,        \* updates of the current GetUpdates result not yet ranged over
    pending,      \* the update of a `ch <- update` that has not completed
    ch,           \* buffer of the channel returned by GetUpdatesChan
    chCap,        \* its capacity (bot.Buffer when it was made)
    chClosed,     \* close(ch) has been performed
    published,    \* history: UpdateIDs sent on ch, in order
    received,     \* history: UpdateIDs the consumer took from ch, in order
    sawClosed,    \* the consumer's receive reported the channel closed and empty
    fetched,      \* history: UpdateIDs of all successful GetUpdates results, in order
    fetchedOK,    \* some GetUpdates call has returned without error
    nfail,        \* failed GetUpdates calls since a batch was last ranged over
    afterStop,    \* number of GetUpdates calls started after StopReceivingUpdates
    closes        \* number of close(ch) calls the goroutine has made

pollVars == <<shutdown, pc, offset, initOffset, batch, pending, ch, chCap, chClosed,
              published, received, sawClosed, fetched, fetchedOK, nfail,
              afterStop, closes>>

VARIABLES
    wpc,          \* "unregistered" until ListenForWebhook has run, then "listening"
    wch,          \* buffer of the channel returned by ListenForWebhook
    wCap,         \* its capacity (bot.Buffer when it was made)
    hpc,          \* position of each handler invocation
    hreq,         \* the request each handler invocation is serving
    hupd,         \* the update HandleUpdate returned to it
    hresp,        \* the response it wrote
    hsent,        \* history: what it has sent on wch for this request
    wpublished,   \* history: UpdateIDs sent on wch, in order
    wreceived,    \* history: UpdateIDs the consumer took from wch, in order
    nreq,         \* number of requests delivered so far
    ndecoded      \* history: number of requests HandleUpdate has decoded

webVars == <<wpc, wch, wCap, hpc, hreq, hupd, hresp, hsent, wpublished, wreceived, nreq,
             ndecoded>>

\* Several polling sessions on one bot: every GetUpdatesChan call makes its
\* own channel and goroutine with its own copy of config; all goroutines read
\* the one bot.shutdownChannel.
VARIABLES
    mshutdown,    \* bot.shutdownChannel has been closed
    mpc,          \* position of each session's goroutine
    moffset,      \* config.Offset inside each goroutine
    mbatch,       \* updates of its current GetUpdates result not yet ranged over
    mpending,     \* the update of its `ch <- update` that has not completed
    mch,          \* buffer of each session's channel
    mcap,         \* its capacity
    mclosed,      \* close(ch) has been performed on it
    mpublished,   \* history: UpdateIDs sent on each session's channel
    mfetched,     \* history: number of updates GetUpdates has returned to each session
    mcalled,      \* history: the session has called GetUpdates
    mlate         \* history: the session was started after StopReceivingUpdates

multiVars == <<mshutdown, mpc, moffset, mbatch, mpending, mch, mcap, mclosed,
               mpublished, mfetched, mcalled, mlate>>

vars == <<pollVars, webVars, multiVars>>

Sessions == 1 .. MaxSessions

Handlers == 1 .. MaxHandlers

Methods == {"GET", "POST"}

\* Request bodies, as token sequences: empty, the empty object, an object
\* with an update_id, an update_id of the wrong type, and an object followed
\* by more data.
Bodies ==
    { <<>>,
      <<"{", "}">>,
      <<"{", "update_id", "1", "}">>,
      <<"{", "update_id", "x", "}">>,
      <<"{", "update_id", "2", "}", "x">> }

Requests == [Method : Methods, Body : Bodies]

NoRequest == [Method |-> "", Body |-> <<>>]

\* An unrecovered panic in the goroutine ends the whole process.
Alive == pc # "panic"

Init ==
    /\ shutdown = FALSE
    /\ pc = "idle"
    /\ offset = 0
    /\ initOffset = 0
    /\ batch = <<>>
    /\ pending = 0
    /\ ch = <<>>
    /\ chCap = 1
    /\ chClosed = FALSE
    /\ published = <<>>
    /\ received = <<>>
    /\ sawClosed = FALSE
    /\ fetched = <<>>
    /\ fetchedOK = FALSE
    /\ nfail = 0
    /\ afterStop = 0
    /\ closes = 0
    /\ wpc = "unregistered"
    /\ wch = <<>>
    /\ wCap = 1
    /\ hpc = [h \in Handlers |-> "idle"]
    /\ hreq = [h \in Handlers |-> NoRequest]
    /\ hupd = [h \in Handlers |-> 0]
    /\ hresp = [h \in Handlers |-> "none"]
    /\ hsent = [h \in Handlers |-> <<>>]
    /\ wpublished = <<>>
    /\ wreceived = <<>>
    /\ nreq = 0
    /\ ndecoded = 0
    /\ mshutdown = FALSE
    /\ mpc = [s \in Sessions |-> "idle"]
    /\ moffset = [s \in Sessions |-> 0]
    /\ mbatch = [s \in Sessions |-> <<>>]
    /\ mpending = [s \in Sessions |-> 0]
    /\ mch = [s \in Sessions |-> <<>>]
    /\ mcap = [s \in Sessions |-> 1]
    /\ mclosed = [s \in Sessions |-> FALSE]
    /\ mpublished = [s \in Sessions |-> <<>>]
    /\ mfetched = [s \in Sessions |-> 0]
    /\ mcalled = [s \in Sessions |-> FALSE]
    /\ mlate = [s \in Sessions |-> FALSE]

\* GetUpdatesChan: make the channel, start the goroutine, return the channel.
GetUpdatesChan(off, buffer) ==
    /\ pc = "idle"
    /\ pc' = "select"
    /\ offset' = off
    /\ initOffset' = off
    /\ chCap' = buffer
    /\ ch' = <<>>
    /\ UNCHANGED <<shutdown, batch, pending, chClosed, published, received, sawClosed,
                   fetched, fetchedOK, nfail, afterStop, closes>>
    /\ UNCHANGED <<webVars, multiVars>>

\* StopReceivingUpdates: close(bot.shutdownChannel).  Closing it a second time
\* panics in the caller; callers signal once.
StopReceivingUpdates ==
    /\ Alive
    /\ ~shutdown
    /\ shutdown' = TRUE
    /\ UNCHANGED <<pc, offset, initOffset, batch, pending, ch, chCap, chClosed,
                   published, received, sawClosed, fetched, fetchedOK, nfail,
                   afterStop, closes>>
    /\ UNCHANGED <<webVars, multiVars>>

\* A select that never takes the shutdown case.
SelectShutdown_Never(closed) == FALSE

\* The value the select at the top of the loop takes: the receive on the
\* shutdown channel is ready exactly when that channel is closed.
SelectShutdown(closed) == closed

\* close(c) panics when c is already closed.
ClosePanics(closed) == closed

\* select { case <-bot.shutdownChannel: close(ch); return   default: }
Select ==
    /\ pc = "select"
    /\ IF SelectShutdown(shutdown)
         THEN /\ pc' = IF ClosePanics(chClosed) THEN "panic" ELSE "return"
              /\ chClosed' = TRUE
              /\ closes' = closes + 1
         ELSE /\ pc' = "call"
              /\ UNCHANGED <<chClosed, closes>>
    /\ UNCHANGED <<shutdown, offset, initOffset, batch, pending, ch, chCap,
                   published, received, sawClosed, fetched, fetchedOK, nfail,
                   afterStop>>
    /\ UNCHANGED <<webVars, multiVars>>

\* return: runs the deferred close(ch) of `defer close(ch)`.
Return ==
    /\ pc = "return"
    /\ pc' = IF ClosePanics(chClosed) THEN "panic" ELSE "terminated"
    /\ chClosed' = TRUE
    /\ closes' = closes + 1
    /\ UNCHANGED <<shutdown, offset, initOffset, batch, pending, ch, chCap,
                   published, received, sawClosed, fetched, fetchedOK, nfail,
                   afterStop>>
    /\ UNCHANGED <<webVars, multiVars>>

\* bot.GetUpdates(config) is called: the request is now in flight.
CallGetUpdates ==
    /\ pc = "call"
    /\ pc' = "inflight"
    /\ afterStop' = IF shutdown THEN afterStop + 1 ELSE afterStop
    /\ UNCHANGED <<shutdown, offset, initOffset, batch, pending, ch, chCap, chClosed,
                   published, received, sawClosed, fetched, fetchedOK, nfail, closes>>
    /\ UNCHANGED <<webVars, multiVars>>

\* A fetch error that ends the goroutine instead of retrying.
OnFetchError_Fatal == "return"

\* A fetch error that goes straight to the next call, without the sleep and
\* the stop check.
OnFetchError_NoCheck == "call"

\* Where the goroutine goes when GetUpdates returns an error.
OnFetchError == "sleep"

\* GetUpdates returns err != nil: log, then time.Sleep(3s).
FetchFail ==
    /\ pc = "inflight"
    /\ nfail < MaxFails
    /\ nfail' = nfail + 1
    /\ pc' = OnFetchError
    /\ UNCHANGED <<shutdown, offset, initOffset, batch, pending, ch, chCap, chClosed,
                   published, received, sawClosed, fetched, fetchedOK,
                   afterStop, closes>>
    /\ UNCHANGED <<webVars, multiVars>>

\* time.Sleep returns; continue.
SleepDone ==
    /\ pc = "sleep"
    /\ pc' = "select"
    /\ UNCHANGED <<shutdown, offset, initOffset, batch, pending, ch, chCap, chClosed,
                   published, received, sawClosed, fetched, fetchedOK, nfail,
                   afterStop, closes>>
    /\ UNCHANGED <<webVars, multiVars>>

\* GetUpdates returns updates, nil.  Once the upstream has handed out
\* MaxFetched updates it has nothing more and returns empty results.
FetchOK(b) ==
    /\ pc = "inflight"
    /\ batch' = b
    /\ fetched' = fetched \o b
    /\ fetchedOK' = TRUE
    /\ pc' = "range"
    /\ UNCHANGED <<shutdown, offset, initOffset, pending, ch, chCap, chClosed,
                   published, received, sawClosed, nfail, afterStop, closes>>
    /\ UNCHANGED <<webVars, multiVars>>

\* An acceptance test that ignores the cursor.
Accepts_NoCursor(id, off) == id >= 0

\* if update.UpdateID >= config.Offset
Accepts(id, off) == id >= off

\* A cursor that is set to the update's own identifier.
NextOffset_Same(id) == id

\* config.Offset = update.UpdateID + 1
NextOffset(id) == id + 1

\* One iteration of `for _, update := range updates`, up to the channel send.
Range ==
    /\ pc = "range"
    /\ IF batch = <<>>
         THEN /\ pc' = "select"
              /\ nfail' = 0
              /\ UNCHANGED <<offset, batch, pending>>
         ELSE /\ batch' = Tail(batch)
              /\ IF Accepts(Head(batch), offset)
                   THEN /\ offset' = NextOffset(Head(batch))
                        /\ pending' = Head(batch)
                        /\ pc' = "send"
                   ELSE UNCHANGED <<offset, pending, pc>>
              /\ UNCHANGED nfail
    /\ UNCHANGED <<shutdown, initOffset, ch, chCap, chClosed, published, received,
                   sawClosed, fetched, fetchedOK, afterStop, closes>>
    /\ UNCHANGED <<webVars, multiVars>>

\* ch <- update: completes when the buffer has room, blocks until then.
Send ==
    /\ pc = "send"
    /\ Len(ch) < chCap
    /\ ch' = Append(ch, pending)
    /\ published' = Append(published, pending)
    /\ pc' = "range"
    /\ UNCHANGED <<shutdown, offset, initOffset, batch, pending, chCap, chClosed,
                   received, sawClosed, fetched, fetchedOK, nfail, afterStop, closes>>
    /\ UNCHANGED <<webVars, multiVars>>

\* The application receives from the channel: a buffered value if there is
\* one, else the closed indication if the channel is closed, else it blocks.
Receive ==
    /\ Alive
    /\ pc # "idle"
    /\ IF ch # <<>>
         THEN /\ received' = Append(received, Head(ch))
              /\ ch' = Tail(ch)
              /\ UNCHANGED sawClosed
         ELSE /\ chClosed
              /\ ~sawClosed
              /\ sawClosed' = TRUE
              /\ UNCHANGED <<ch, received>>
    /\ UNCHANGED <<shutdown, pc, offset, initOffset, batch, pending, chCap, chClosed,
                   published, fetched, fetchedOK, nfail, afterStop, closes>>
    /\ UNCHANGED <<webVars, multiVars>>

\* A step of the polling goroutine, the upstream handing out at most n
\* updates in the run.
Loop(n) ==
    \/ Select
    \/ Return
    \/ CallGetUpdates
    \/ FetchFail
    \/ SleepDone
    \/ \E b \in Batches(n - Len(fetched)) : FetchOK(b)
    \/ Range
    \/ Send

Next ==
    \/ \E off \in 0 .. MaxInitOffset, buffer \in 1 .. MaxBuffer : GetUpdatesChan(off, buffer)
    \/ StopReceivingUpdates
    \/ Loop(MaxFetched)
    \/ Receive

Spec == Init /\ [][Next]_vars

FairNext ==
    \/ \E off \in 0 .. MaxInitOffset, buffer \in 1 .. MaxBuffer : GetUpdatesChan(off, buffer)
    \/ StopReceivingUpdates
    \/ Loop(MaxFetchedFair)
    \/ Receive

\* The goroutine is scheduled, every GetUpdates call returns, and the
\* application keeps receiving.
FairSpec == Init /\ [][FairNext]_vars /\ WF_vars(Loop(MaxFetchedFair)) /\ WF_vars(Receive)

\* ---- webhook ----------------------------------------------------------------

DigitTokens == {"0", "1", "2"}

\* strconv of one digit token.
NumberOf(tok) == CASE tok = "0" -> 0 [] tok = "1" -> 1 [] tok = "2" -> 2

\* json.NewDecoder(body).Decode(&update): reads the first JSON value of the
\* stream and ignores what follows it.  An empty stream, a truncated object,
\* a non-JSON token or an update_id that is not a number is an error; an
\* object without update_id leaves UpdateID at its zero value.
JSONDecode(body) ==
    IF Len(body) >= 2 /\ body[1] = "{" /\ body[2] = "}"
      THEN [ok |-> TRUE, UpdateID |-> 0]
      ELSE IF /\ Len(body) >= 4
              /\ body[1] = "{"
              /\ body[2] = "update_id"
              /\ body[3] \in DigitTokens
              /\ body[4] = "}"
             THEN [ok |-> TRUE, UpdateID |-> NumberOf(body[3])]
             ELSE [ok |-> FALSE, UpdateID |-> 0]

\* HandleUpdate without the method check.
HandleUpdate_AnyMethod(r) ==
    IF ~JSONDecode(r.Body).ok
      THEN [err |-> "decode", UpdateID |-> 0]
      ELSE [err |-> "nil", UpdateID |-> JSONDecode(r.Body).UpdateID]

\* BotAPI.HandleUpdate: the method is checked before the body is decoded.
HandleUpdate(r) ==
    IF r.Method # "POST"
      THEN [err |-> "method", UpdateID |-> 0]
      ELSE IF ~JSONDecode(r.Body).ok
             THEN [err |-> "decode", UpdateID |-> 0]
             ELSE [err |-> "nil", UpdateID |-> JSONDecode(r.Body).UpdateID]

\* ListenForWebhook: make the channel and register the handler.
ListenForWebhook(buffer) ==
    /\ wpc = "unregistered"
    /\ wpc' = "listening"
    /\ wCap' = buffer
    /\ wch' = <<>>
    /\ UNCHANGED <<hpc, hreq, hupd, hresp, hsent, wpublished, wreceived, nreq, ndecoded>>
    /\ UNCHANGED <<pollVars, multiVars>>

\* The HTTP server starts a handler invocation for an inbound request.  The
\* invocations are interchangeable: the request goes to the first free one.
Deliver(h, r) ==
    /\ wpc = "listening"
    /\ hpc[h] \in {"idle", "done"}
    /\ \A g \in Handlers : g < h => hpc[g] \in {"handle", "send"}
    /\ nreq < MaxRequests
    /\ nreq' = nreq + 1
    /\ hpc' = [hpc EXCEPT ![h] = "handle"]
    /\ hreq' = [hreq EXCEPT ![h] = r]
    /\ hupd' = [hupd EXCEPT ![h] = 0]
    /\ hresp' = [hresp EXCEPT ![h] = "none"]
    /\ hsent' = [hsent EXCEPT ![h] = <<>>]
    /\ UNCHANGED <<wpc, wch, wCap, wpublished, wreceived, ndecoded>>
    /\ UNCHANGED <<pollVars, multiVars>>

\* update, err := bot.HandleUpdate(r); on error write status 400 with the
\* error text and return.
Handle(h) ==
    /\ hpc[h] = "handle"
    /\ IF HandleUpdate(hreq[h]).err # "nil"
         THEN /\ hresp' = [hresp EXCEPT ![h] = HandleUpdate(hreq[h]).err]
              /\ hpc' = [hpc EXCEPT ![h] = "done"]
              /\ UNCHANGED <<hupd, ndecoded>>
         ELSE /\ hupd' = [hupd EXCEPT ![h] = HandleUpdate(hreq[h]).UpdateID]
              /\ hpc' = [hpc EXCEPT ![h] = "send"]
              /\ ndecoded' = ndecoded + 1
              /\ UNCHANGED hresp
    /\ UNCHANGED <<wpc, wch, wCap, hreq, hsent, wpublished, wreceived, nreq>>
    /\ UNCHANGED <<pollVars, multiVars>>

\* A send that gives up when the buffer is full (select with a default case)
\* instead of blocking.
HandlerSend_DropWhenFull(h) ==
    /\ hpc[h] = "send"
    /\ IF Len(wch) < wCap
         THEN /\ wch' = Append(wch, hupd[h])
              /\ wpublished' = Append(wpublished, hupd[h])
              /\ hsent' = [hsent EXCEPT ![h] = Append(hsent[h], hupd[h])]
         ELSE UNCHANGED <<wch, wpublished, hsent>>
    /\ hresp' = [hresp EXCEPT ![h] = "ok"]
    /\ hpc' = [hpc EXCEPT ![h] = "done"]
    /\ UNCHANGED <<wpc, wCap, hreq, hupd, wreceived, nreq, ndecoded>>
    /\ UNCHANGED <<pollVars, multiVars>>

\* ch <- *update, then the handler returns (status 200).
HandlerSend(h) ==
    /\ hpc[h] = "send"
    /\ Len(wch) < wCap
    /\ wch' = Append(wch, hupd[h])
    /\ wpublished' = Append(wpublished, hupd[h])
    /\ hsent' = [hsent EXCEPT ![h] = Append(hsent[h], hupd[h])]
    /\ hresp' = [hresp EXCEPT ![h] = "ok"]
    /\ hpc' = [hpc EXCEPT ![h] = "done"]
    /\ UNCHANGED <<wpc, wCap, hreq, hupd, wreceived, nreq, ndecoded>>
    /\ UNCHANGED <<pollVars, multiVars>>

\* The application receives from the webhook channel.
WebhookReceive ==
    /\ wch # <<>>
    /\ wreceived' = Append(wreceived, Head(wch))
    /\ wch' = Tail(wch)
    /\ UNCHANGED <<wpc, wCap, hpc, hreq, hupd, hresp, hsent, wpublished, nreq, ndecoded>>
    /\ UNCHANGED <<pollVars, multiVars>>

WebhookNext ==
    \/ \E buffer \in 1 .. MaxBuffer : ListenForWebhook(buffer)
    \/ \E h \in Handlers, r \in Requests : Deliver(h, r)
    \/ \E h \in Handlers : Handle(h)
    \/ \E h \in Handlers : HandlerSend(h)
    \/ WebhookReceive

WebhookSpec == Init /\ [][WebhookNext]_vars

\* ---- several sessions on one bot ---------------------------------------------

\* An unrecovered panic in any goroutine ends the whole process.
MultiAlive == \A s \in Sessions : mpc[s] # "panic"

\* GetUpdatesChan, called for the s-th time on the bot.
MultiGetUpdatesChan(s, off, buffer) ==
    /\ MultiAlive
    /\ mpc[s] = "idle"
    /\ \A g \in Sessions : g < s => mpc[g] # "idle"
    /\ mpc' = [mpc EXCEPT ![s] = "select"]
    /\ moffset' = [moffset EXCEPT ![s] = off]
    /\ mcap' = [mcap EXCEPT ![s] = buffer]
    /\ mlate' = [mlate EXCEPT ![s] = mshutdown]
    /\ UNCHANGED <<mshutdown, mbatch, mpending, mch, mclosed, mpublished, mfetched, mcalled>>
    /\ UNCHANGED <<pollVars, webVars>>

\* StopReceivingUpdates: close(bot.shutdownChannel), once.
MultiStop ==
    /\ MultiAlive
    /\ ~mshutdown
    /\ mshutdown' = TRUE
    /\ UNCHANGED <<mpc, moffset, mbatch, mpending, mch, mcap, mclosed, mpublished,
                   mfetched, mcalled, mlate>>
    /\ UNCHANGED <<pollVars, webVars>>

\* select { case <-bot.shutdownChannel: close(ch); return   default: }
MultiSelect(s) ==
    /\ MultiAlive
    /\ mpc[s] = "select"
    /\ IF SelectShutdown(mshutdown)
         THEN /\ mpc' = [mpc EXCEPT ![s] = IF ClosePanics(mclosed[s]) THEN "panic" ELSE "return"]
              /\ mclosed' = [mclosed EXCEPT ![s] = TRUE]
         ELSE /\ mpc' = [mpc EXCEPT ![s] = "call"]
              /\ UNCHANGED mclosed
    /\ UNCHANGED <<mshutdown, moffset, mbatch, mpending, mch, mcap, mpublished,
                   mfetched, mcalled, mlate>>
    /\ UNCHANGED <<pollVars, webVars>>

\* return: runs the deferred close(ch).
MultiReturn(s) ==
    /\ MultiAlive
    /\ mpc[s] = "return"
    /\ mpc' = [mpc EXCEPT ![s] = IF ClosePanics(mclosed[s]) THEN "panic" ELSE "terminated"]
    /\ mclosed' = [mclosed EXCEPT ![s] = TRUE]
    /\ UNCHANGED <<mshutdown, moffset, mbatch, mpending, mch, mcap, mpublished,
                   mfetched, mcalled, mlate>>
    /\ UNCHANGED <<pollVars, webVars>>

\* bot.GetUpdates(config) is called.
MultiCallGetUpdates(s) ==
    /\ MultiAlive
    /\ mpc[s] = "call"
    /\ mpc' = [mpc EXCEPT ![s] = "inflight"]
    /\ mcalled' = [mcalled EXCEPT ![s] = TRUE]
    /\ UNCHANGED <<mshutdown, moffset, mbatch, mpending, mch, mcap, mclosed, mpublished,
                   mfetched, mlate>>
    /\ UNCHANGED <<pollVars, webVars>>

\* GetUpdates returns err != nil: log, then time.Sleep(3s).
MultiFetchFail(s) ==
    /\ MultiAlive
    /\ mpc[s] = "inflight"
    /\ mpc' = [mpc EXCEPT ![s] = OnFetchError]
    /\ UNCHANGED <<mshutdown, moffset, mbatch, mpending, mch, mcap, mclosed, mpublished,
                   mfetched, mcalled, mlate>>
    /\ UNCHANGED <<pollVars, webVars>>

\* time.Sleep returns; continue.
MultiSleepDone(s) ==
    /\ MultiAlive
    /\ mpc[s] = "sleep"
    /\ mpc' = [mpc EXCEPT ![s] = "select"]
    /\ UNCHANGED <<mshutdown, moffset, mbatch, mpending, mch, mcap, mclosed, mpublished,
                   mfetched, mcalled, mlate>>
    /\ UNCHANGED <<pollVars, webVars>>

\* GetUpdates returns updates, nil.
MultiFetchOK(s, b) ==
    /\ MultiAlive
    /\ mpc[s] = "inflight"
    /\ mbatch' = [mbatch EXCEPT ![s] = b]
    /\ mfetched' = [mfetched EXCEPT ![s] = mfetched[s] + Len(b)]
    /\ mpc' = [mpc EXCEPT ![s] = "range"]
    /\ UNCHANGED <<mshutdown, moffset, mpending, mch, mcap, mclosed, mpublished,
                   mcalled, mlate>>
    /\ UNCHANGED <<pollVars, webVars>>

\* One iteration of `for _, update := range updates`, up to the channel send.
MultiRange(s) ==
    /\ MultiAlive
    /\ mpc[s] = "range"
    /\ IF mbatch[s] = <<>>
         THEN /\ mpc' = [mpc EXCEPT ![s] = "select"]
              /\ UNCHANGED <<moffset, mbatch, mpending>>
         ELSE /\ mbatch' = [mbatch EXCEPT ![s] = Tail(mbatch[s])]
              /\ IF Accepts(Head(mbatch[s]), moffset[s])
                   THEN /\ moffset' = [moffset EXCEPT ![s] = NextOffset(Head(mbatch[s]))]
                        /\ mpending' = [mpending EXCEPT ![s] = Head(mbatch[s])]
                        /\ mpc' = [mpc EXCEPT ![s] = "send"]
                   ELSE UNCHANGED <<moffset, mpending, mpc>>
    /\ UNCHANGED <<mshutdown, mch, mcap, mclosed, mpublished, mfetched, mcalled, mlate>>
    /\ UNCHANGED <<pollVars, webVars>>

\* ch <- update: completes when the buffer has room.
MultiSend(s) ==
    /\ MultiAlive
    /\ mpc[s] = "send"
    /\ Len(mch[s]) < mcap[s]
    /\ mch' = [mch EXCEPT ![s] = Append(mch[s], mpending[s])]
    /\ mpublished' = [mpublished EXCEPT ![s] = Append(mpublished[s], mpending[s])]
    /\ mpc' = [mpc EXCEPT ![s] = "range"]
    /\ UNCHANGED <<mshutdown, moffset, mbatch, mpending, mcap, mclosed, mfetched,
                   mcalled, mlate>>
    /\ UNCHANGED <<pollVars, webVars>>

\* The application takes an update from a session's channel.
MultiReceive(s) ==
    /\ MultiAlive
    /\ mpc[s] # "idle"
    /\ mch[s] # <<>>
    /\ mch' = [mch EXCEPT ![s] = Tail(mch[s])]
    /\ UNCHANGED <<mshutdown, mpc, moffset, mbatch, mpending, mcap, mclosed, mpublished,
                   mfetched, mcalled, mlate>>
    /\ UNCHANGED <<pollVars, webVars>>

\* A step of the goroutine of session s.
MultiLoop(s) ==
    \/ MultiSelect(s)
    \/ MultiReturn(s)
    \/ MultiCallGetUpdates(s)
    \/ MultiFetchFail(s)
    \/ MultiSleepDone(s)
    \/ \E b \in Batches(MaxFetchedMulti - mfetched[s]) : MultiFetchOK(s, b)
    \/ MultiRange(s)
    \/ MultiSend(s)

MultiNext ==
    \/ \E s \in Sessions, off \in 0 .. MaxInitOffset, buffer \in 1 .. MaxBuffer :
          MultiGetUpdatesChan(s, off, buffer)
    \/ MultiStop
    \/ \E s \in Sessions : MultiLoop(s)
    \/ \E s \in Sessions : MultiReceive(s)

MultiSpec == Init /\ [][MultiNext]_vars

\* Every goroutine is scheduled, every GetUpdates call returns, and the
\* application keeps receiving from every channel.
MultiFairSpec ==
    /\ MultiSpec
    /\ \A s \in Sessions : WF_vars(MultiLoop(s)) /\ WF_vars(MultiReceive(s))

\* ---- helpers for the properties -------------------------------------------

\* The goroutine has taken the shutdown case of the select.
Observed == pc \in {"return", "terminated", "panic"}

\* The goroutine is inside the loop body or at its top.
Running == pc \in {"select", "call", "inflight", "sleep", "range", "send"}

\* UpdateIDs the loop has accepted: those sent, and the one whose send has
\* not completed yet.
Accepted == IF pc = "send" THEN Append(published, pending) ELSE published

StrictlyAscending(s) == \A i \in 1 .. Len(s) - 1 : s[i] < s[i + 1]

NonDecreasing(s) == \A i \in 1 .. Len(s) - 1 : s[i] <= s[i + 1]

NoDuplicates(s) == \A i, j \in 1 .. Len(s) : i # j => s[i] # s[j]

MaxOf(s) == CHOOSE m \in { s[i] : i \in 1 .. Len(s) } : \A i \in 1 .. Len(s) : s[i] <= m

Last(s) == s[Len(s)]

\* ---- C1 -------------------------------------------------------------------
\* C1: in a polling session, once StopReceivingUpdates has been signalled the
\* goroutine eventually has closed the channel and terminated normally, and
\* after it has observed the signal it never runs the loop again.
\* Checked under FairSpec.
C1_StopLeadsToTerminated ==
    /\ (shutdown /\ pc # "idle") ~> (pc = "terminated" /\ chClosed)
    /\ [][Observed => ~Running']_vars

\* ---- C2 -------------------------------------------------------------------
\* C2: the goroutine closes the channel at most once; it never calls close on
\* a channel that is already closed.
C2_ClosedAtMostOnce == closes <= 1 /\ pc # "panic"

\* ---- C3 -------------------------------------------------------------------
\* C3: an update whose UpdateID is below the cursor when the loop reaches it
\* is not published and does not move the cursor, and no UpdateID is
\* published twice in a session.
C3_StaleNeverPublished ==
    /\ [](NoDuplicates(Accepted))
    /\ [][(pc = "range" /\ batch # <<>> /\ Head(batch) < offset)
            => (pc' # "send" /\ published' = published /\ offset' = offset)]_vars

\* C3 witness: the same non-empty batch came back from two fetches and was
\* published once.
C3_Witness ==
    \E b \in Batches(MaxFetched) :
        /\ b # <<>>
        /\ StrictlyAscending(b)
        /\ fetched = b \o b
        /\ published = b
        /\ pc = "select"

\* ---- C4 -------------------------------------------------------------------
\* C4: when the UpdateIDs of the successful results so far are strictly
\* ascending and none is below the initial offset, the updates accepted so
\* far followed by the rest of the current batch are exactly the fetched ones
\* in order, the consumer's reads followed by the buffer are the published
\* ones, and once the batch is done the cursor is the last UpdateID plus one.
\* The re-delivery example (batches [0,1] then [1,2] from offset 0) publishes
\* 0,1,2 and leaves the cursor at 3.
C4_AscendingAllPublished ==
    /\ (StrictlyAscending(fetched) /\ \A i \in 1 .. Len(fetched) : fetched[i] >= initOffset)
          => /\ Accepted \o batch = fetched
             /\ received \o ch = published
             /\ (pc = "select" /\ fetched # <<>>)
                   => (published = fetched /\ offset = Last(fetched) + 1)
    /\ (fetched = <<0, 1, 1, 2>> /\ initOffset = 0 /\ pc = "select")
          => (published = <<0, 1, 2>> /\ offset = 3)

\* C4 witness: three ascending updates arrived in two batches and the
\* consumer has read all of them.
C4_Witness ==
    /\ pc = "select"
    /\ batch = <<>>
    /\ Len(fetched) >= 3
    /\ StrictlyAscending(fetched)
    /\ received = fetched
    /\ offset = Last(fetched) + 1

\* ---- C5 -------------------------------------------------------------------
\* C5 as stated: the cursor never decreases; it is the initial offset before
\* the first successful fetch and (largest UpdateID sent on the channel) + 1
\* at all times after it.
C5_OffsetIsMaxDeliveredPlusOne ==
    /\ [][offset' >= offset]_vars
    /\ [](pc # "idle" =>
            IF fetchedOK
              THEN published # <<>> /\ offset = MaxOf(published) + 1
              ELSE offset = initOffset)

\* C5 amended: the cursor never decreases; it is the initial offset until the
\* loop accepts its first update, and from then on it is (largest UpdateID
\* accepted so far) + 1, an update being accepted when the loop advances the
\* cursor for it, just before the send that delivers it.
C5_OffsetIsMaxAcceptedPlusOne ==
    /\ [][offset' >= offset]_vars
    /\ [](pc # "idle" =>
            IF Accepted # <<>>
              THEN offset = MaxOf(Accepted) + 1
              ELSE offset = initOffset)

\* C5 witness: a successful fetch has happened, the cursor has moved twice
\* and the second accepted update is still waiting in a blocked send.
C5_Witness ==
    /\ fetchedOK
    /\ pc = "send"
    /\ Len(ch) = chCap
    /\ Len(published) >= 1
    /\ offset = pending + 1
    /\ offset > initOffset

\* ---- C6 -------------------------------------------------------------------
\* C6: a failed fetch changes neither the channel nor the cursor and leads to
\* the sleep; unless Stop is signalled the goroutine stays in the loop with
\* the channel open, a failure is followed by another fetch, and every batch
\* that arrives is ranged over to its end with each accepted update sent.
\* Checked under FairSpec.
C6_FailuresAreRetried ==
    /\ [](~shutdown /\ pc # "idle" => Running /\ ~chClosed)
    /\ [][(pc = "inflight" /\ nfail' = nfail + 1)
            => (pc' = "sleep" /\ UNCHANGED <<offset, ch, chClosed, published, closes>>)]_vars
    /\ [][pc = "sleep" => pc' \in {"sleep", "select"}]_vars
    /\ (pc = "sleep" /\ ~shutdown) ~> (pc = "inflight" \/ shutdown)
    /\ [][(pc = "send" /\ pc' # "send") => published' = Append(published, pending)]_vars
    /\ (pc \in {"range", "send"}) ~> (pc = "select")

\* C6 witness: two fetches failed in a row, no Stop was signalled, the
\* goroutine is still in the loop, the next fetch succeeded and an accepted
\* update of its batch is at the channel send, which has room to complete.
C6_Witness ==
    /\ nfail >= 2
    /\ ~shutdown
    /\ pc = "send"
    /\ Len(ch) < chCap
    /\ ~chClosed
    /\ received = published

\* ---- C7 -------------------------------------------------------------------
\* C7: a handler invocation that has finished a request whose method is not
\* POST answered with the method error and sent nothing; one that finished a
\* POST whose body does not decode answered with the decode error and sent
\* nothing; one that finished a POST whose body decodes sent exactly the
\* decoded update; an invocation that has not finished has sent nothing.
\* Checked under WebhookSpec.
C7_WebhookOutcome ==
    \A h \in Handlers :
        /\ hpc[h] \in {"handle", "send"} => hsent[h] = <<>>
        /\ hpc[h] = "done" =>
             IF hreq[h].Method # "POST"
               THEN hresp[h] = "method" /\ hsent[h] = <<>>
               ELSE IF ~JSONDecode(hreq[h].Body).ok
                      THEN hresp[h] = "decode" /\ hsent[h] = <<>>
                      ELSE /\ hresp[h] = "ok"
                           /\ hsent[h] = <<JSONDecode(hreq[h].Body).UpdateID>>

\* C7 witness: three deliveries have finished: one refused for its method
\* although its body decodes, one that put its update on the channel, and one
\* refused because its body does not decode.
C7_Witness ==
    /\ hpc[1] = "done" /\ hresp[1] = "method" /\ hreq[1].Body = <<"{", "update_id", "1", "}">>
    /\ hpc[2] = "done" /\ hresp[2] = "ok" /\ hsent[2] = <<2>>
    /\ hpc[3] = "done" /\ hresp[3] = "decode" /\ hreq[3].Method = "POST"
    /\ wpublished = <<2>>

\* ---- C8 -------------------------------------------------------------------
\* C8: the UpdateIDs sent on the channel in one session are in non-decreasing
\* order, whatever the fetches return.
C8_PublishedNonDecreasing == NonDecreasing(Accepted)

\* C8 witness: the fetches returned identifiers out of order and at least two
\* updates were published.
C8_Witness ==
    /\ ~NonDecreasing(fetched)
    /\ Len(published) >= 2
    /\ pc = "select"

\* ---- C9 -------------------------------------------------------------------
\* C9: closing discards and reorders nothing, and once the channel is closed
\* the consumer gets every published update, in order, and then the closed
\* indication.  Checked under FairSpec.
C9_PublishedRetrievableAfterClose ==
    /\ [](pc # "idle" => received \o ch = published)
    /\ chClosed ~> (sawClosed /\ received = published)

\* ---- C10 ------------------------------------------------------------------
\* C10: at most one GetUpdates call starts after Stop is signalled, signalling
\* Stop does not move the goroutine (a call in flight stays in flight), and
\* once the goroutine has observed the signal it starts no call.
C10_StopIsCooperative ==
    /\ [](afterStop <= 1)
    /\ [][shutdown' # shutdown => pc' = pc]_vars
    /\ [][Observed => (afterStop' = afterStop /\ pc' \notin {"call", "inflight"})]_vars
    /\ [][(pc = "inflight" /\ shutdown) => pc' \in {"inflight", "sleep", "range"}]_vars

\* C10 witness: Stop was signalled between the select and the call, one call
\* started after it, and the goroutine then observed the signal.
C10_Witness ==
    /\ afterStop = 1
    /\ Observed

\* ---- C11 ------------------------------------------------------------------
\* C11: the channel of the polling session is closed only after
\* StopReceivingUpdates: whenever it is closed the signal has been given, and
\* the step that closes it is the stop check taking the shutdown case, never
\* a failed fetch, an empty batch or a dropped update.
C11_ClosedOnlyAfterStop ==
    /\ [](chClosed => shutdown)
    /\ [](closes > 0 => shutdown)
    /\ [][(~chClosed /\ chClosed') => (pc = "select" /\ shutdown)]_vars

\* C11 witness: a stale update was dropped, a later fetch failed, and the
\* channel was closed only once Stop had been signalled.
C11_Witness ==
    /\ chClosed
    /\ shutdown
    /\ nfail >= 1
    /\ published # <<>>
    /\ Len(fetched) > Len(published)

\* ---- C12 ------------------------------------------------------------------
\* C12: the step by which GetUpdates fails changes neither the cursor, the
\* channel buffer, its open status, nor the current batch, and leads to the
\* sleep; the sleep leads to the stop check, and the stop check, when Stop
\* has not been signalled, to a call with the same cursor.  Between the
\* failure and the next call only the consumer touches the buffer, by taking
\* its head.
C12_FailedFetchChangesNothing ==
    /\ [][(pc = "inflight" /\ pc' \notin {"inflight", "range"})
            => /\ pc' = "sleep"
               /\ UNCHANGED <<offset, ch, chClosed, published, batch, pending, closes>>]_vars
    /\ [][pc = "sleep"
            => /\ pc' \in {"sleep", "select"}
               /\ UNCHANGED <<offset, chClosed, published>>
               /\ (ch' = ch \/ (ch # <<>> /\ ch' = Tail(ch)))]_vars
    /\ [][(pc = "select" /\ ~shutdown /\ pc' # "select")
            => (pc' = "call" /\ UNCHANGED <<offset, ch, chClosed, published>>)]_vars
    /\ [][pc = "call"
            => /\ pc' \in {"call", "inflight"}
               /\ UNCHANGED <<offset, chClosed, published>>]_vars

\* C12 witness: after a batch moved the cursor and left an update in the
\* buffer a fetch failed, and the retry is in flight with the cursor and the
\* buffer as they were.
C12_Witness ==
    /\ nfail >= 1
    /\ pc = "inflight"
    /\ ~shutdown
    /\ offset > initOffset
    /\ ch # <<>>
    /\ ch = published
    /\ ~chClosed

\* ---- C13 ------------------------------------------------------------------
\* C13: with several handler invocations writing to the one webhook channel,
\* every update HandleUpdate has decoded is either still held by an
\* invocation waiting at the send or has been put on the channel exactly once
\* by the invocation that decoded it; the buffer never holds more than its
\* capacity; nothing on the channel is lost or reordered before the consumer
\* takes it; and an invocation whose send finds the buffer full stays at the
\* send until the consumer has made room.  Checked under WebhookSpec.
C13_ConcurrentHandlersEnqueueOnce ==
    /\ [](Len(wch) <= wCap)
    /\ [](wreceived \o wch = wpublished)
    /\ [](Len(wpublished) + Cardinality({h \in Handlers : hpc[h] = "send"}) = ndecoded)
    /\ [](\A h \in Handlers :
            /\ hpc[h] = "send" => hsent[h] = <<>>
            /\ (hpc[h] = "done" /\ hresp[h] = "ok") => hsent[h] = <<hupd[h]>>)
    /\ [][\A h \in Handlers :
            (hpc[h] = "send" /\ hpc'[h] # "send")
               => (Len(wch) < wCap /\ wch' = Append(wch, hupd[h]))]_vars
    /\ [][\A h \in Handlers :
            (hpc[h] = "send" /\ Len(wch) = wCap) => hpc'[h] = "send"]_vars

\* C13 witness: the buffer is full, one invocation has put its update on the
\* channel, and two others that decoded theirs wait at the send.
C13_Witness ==
    /\ Len(wch) = wCap
    /\ Cardinality({h \in Handlers : hpc[h] = "send"}) >= 2
    /\ \E h \in Handlers : hpc[h] = "done" /\ hresp[h] = "ok"
    /\ ndecoded >= 3

\* ---- C14 ------------------------------------------------------------------
\* C14: the stop signal of a bot is never reset and reaches every session:
\* once it is given every session that is running leaves the loop, and a
\* session started after it calls GetUpdates not once, publishes nothing and
\* ends with its channel closed.  Checked under MultiFairSpec.
C14_StopReachesEverySession ==
    /\ [][mshutdown => mshutdown']_vars
    /\ [](\A s \in Sessions : mlate[s] => (~mcalled[s] /\ mpublished[s] = <<>>))
    /\ \A s \in Sessions :
          (mshutdown /\ mpc[s] # "idle")
             ~> (mclosed[s] /\ mpc[s] \in {"return", "terminated", "panic"})

====
